---- MODULE Spec2Model ----
(***************************************************************************)
(* U-value estimator for glazed door systems (app.py).                     *)
(*                                                                         *)
(* The estimation engine estimate_u_value and its helpers are modelled as  *)
(* a state machine that executes the function body section by section.    *)
(* Python/numpy binary64 numbers are modelled as decimal floating-point    *)
(* numbers with Digits significant digits: every arithmetic operation      *)
(* rounds its result to Digits digits, exactly as every binary64 operation *)
(* rounds to 53 bits.  The exponent is unbounded (no overflow/underflow).  *)
(***************************************************************************)
EXTENDS Integers, Sequences, FiniteSets, TLC

(***************************************************************************)
(* Number system: a float is [k, m, e].  k = "fin": the value m * 10^e,    *)
(* with m = 0 /\ e = 0 (zero) or 10^(Digits-1) <= |m| < 10^Digits.         *)
(* k = "inf": an infinity of sign m.  k = "nan": not a number.             *)
(***************************************************************************)
Digits == 7

Base == 10 ^ Digits

BaseLo == 10 ^ (Digits - 1)

Zero == [k |-> "fin", m |-> 0, e |-> 0]

NaN == [k |-> "nan", m |-> 0, e |-> 0]

Inf(s) == [k |-> "inf", m |-> s, e |-> 0]

IsFin(x) == x.k = "fin"

Abs(n) == IF n < 0 THEN -n ELSE n

Sgn(n) == IF n < 0 THEN -1 ELSE IF n = 0 THEN 0 ELSE 1

RECURSIVE NumDigits(_)
NumDigits(n) == IF n < 10 THEN 1 ELSE 1 + NumDigits(n \div 10)

\* n / 10^k rounded to the nearest integer, ties to even (n >= 0).
RoundDiv(n, k) ==
    LET p == 10 ^ k
        q == n \div p
        r == n % p
    IN  IF 2 * r > p \/ (2 * r = p /\ q % 2 = 1) THEN q + 1 ELSE q

\* The float nearest to s * n * 10^e (s = +-1, 0 <= n < 2^31).
Norm(s, n, e) ==
    IF n = 0 THEN Zero
    ELSE LET d == NumDigits(n)
         IN  IF d <= Digits
             THEN [k |-> "fin", m |-> s * n * 10 ^ (Digits - d), e |-> e - (Digits - d)]
             ELSE LET q == RoundDiv(n, d - Digits)
                  IN  IF q = Base
                      THEN [k |-> "fin", m |-> s * BaseLo, e |-> e + (d - Digits) + 1]
                      ELSE [k |-> "fin", m |-> s * q, e |-> e + (d - Digits)]

\* The literal m * 10^e, and the integer n.
F(m, e) == Norm(IF m < 0 THEN -1 ELSE 1, Abs(m), e)

FInt(n) == F(n, 0)

FNeg(a) == [a EXCEPT !.m = -a.m]

FAbs(a) == [a EXCEPT !.m = Abs(a.m)]

\* a * b
FMul(a, b) ==
    IF a.k = "nan" \/ b.k = "nan" THEN NaN
    ELSE IF a.k = "inf" \/ b.k = "inf"
         THEN IF a.m = 0 \/ b.m = 0 THEN NaN ELSE Inf(Sgn(a.m) * Sgn(b.m))
    ELSE LET x == Abs(a.m)
             y == Abs(b.m)
             s == IF (a.m < 0) = (b.m < 0) THEN 1 ELSE -1
             x1 == x \div 10000
             x0 == x % 10000
             y1 == y \div 10000
             y0 == y % 10000
             mid == x1 * y0 + x0 * y1
             low == (mid % 10000) * 10000 + x0 * y0
             hi == x1 * y1 + mid \div 10000 + low \div 100000000
             lo == low % 100000000
         IN  IF hi = 0 THEN Norm(s, lo, a.e + b.e)
             ELSE LET j == 9 - NumDigits(hi)
                  IN  Norm(s, hi * 10 ^ j + lo \div 10 ^ (8 - j), a.e + b.e + 8 - j)

RECURSIVE LongDiv(_, _, _, _)
LongDiv(q, r, y, n) ==
    IF n = 0 THEN <<q, r>>
    ELSE LongDiv(q * 10 + (r * 10) \div y, (r * 10) % y, y, n - 1)

\* a / b with IEEE-754 (numpy) semantics for a zero divisor.
FDiv(a, b) ==
    IF a.k = "nan" \/ b.k = "nan" THEN NaN
    ELSE IF a.k = "inf" THEN (IF b.k = "inf" THEN NaN
                              ELSE Inf(a.m * (IF b.m < 0 THEN -1 ELSE 1)))
    ELSE IF b.k = "inf" THEN Zero
    ELSE IF b.m = 0 THEN (IF a.m = 0 THEN NaN ELSE Inf(Sgn(a.m)))
    ELSE IF a.m = 0 THEN Zero
    ELSE LET x == Abs(a.m)
             y == Abs(b.m)
             s == IF (a.m < 0) = (b.m < 0) THEN 1 ELSE -1
             qr == LongDiv(x \div y, x % y, y, Digits)
             q == IF qr[1] < Base /\ 2 * qr[2] > y THEN qr[1] + 1 ELSE qr[1]
         IN  Norm(s, q, a.e - b.e - Digits)

\* a + b
FAdd(a, b) ==
    IF a.k = "nan" \/ b.k = "nan" THEN NaN
    ELSE IF a.k = "inf" THEN (IF b.k = "inf" /\ b.m # a.m THEN NaN ELSE a)
    ELSE IF b.k = "inf" THEN b
    ELSE IF a.m = 0 THEN b
    ELSE IF b.m = 0 THEN a
    ELSE LET big == IF a.e >= b.e THEN a ELSE b
             sml == IF a.e >= b.e THEN b ELSE a
             d == big.e - sml.e
         IN  IF d > Digits + 1 THEN big
             ELSE LET t == big.m * 10 + Sgn(sml.m) * ((Abs(sml.m) * 10) \div 10 ^ d)
                  IN  Norm(IF t < 0 THEN -1 ELSE 1, Abs(t), big.e - 1)

\* a - b
FSub(a, b) == FAdd(a, FNeg(b))

\* a < b, a <= b (finite operands)
FLt(a, b) == FSub(a, b).m < 0

FLe(a, b) == FSub(a, b).m <= 0

\* Python's max(a, b) and min(a, b): the first argument unless the second beats it.
FMax(a, b) == IF FLt(a, b) THEN b ELSE a

FMin(a, b) == IF FLt(b, a) THEN b ELSE a

\* a ** 0.5 for a >= 0: Newton's iteration from a power of ten, to its fixed point.
RECURSIVE SqrtIter(_, _, _)
SqrtIter(a, x, n) ==
    LET y == FMul(F(5, -1), FAdd(x, FDiv(a, x)))
    IN  IF n = 0 \/ y = x THEN x ELSE SqrtIter(a, y, n - 1)

FSqrt(a) ==
    IF a.m = 0 THEN Zero
    ELSE SqrtIter(a, F(1, (a.e + Digits) \div 2), Digits + 1)

\* numpy.exp(x): halve the argument until |x| <= 1/8, sum the Taylor series, square back.
RECURSIVE ExpSeries(_, _, _, _, _)
ExpSeries(x, term, sum, i, n) ==
    IF i > n THEN sum
    ELSE LET t == FDiv(FMul(term, x), FInt(i))
         IN  ExpSeries(x, t, FAdd(sum, t), i + 1, n)

RECURSIVE ExpReduce(_)
ExpReduce(x) ==
    IF FLe(FAbs(x), F(125, -3)) THEN ExpSeries(x, FInt(1), FInt(1), 1, Digits - 1)
    ELSE LET h == ExpReduce(FMul(x, F(5, -1))) IN FMul(h, h)

FExp(x) == ExpReduce(x)

\* numpy.rint: the nearest integer, ties to even.
FRint(x) ==
    IF ~IsFin(x) \/ x.e >= 0 THEN x
    ELSE IF -x.e > Digits THEN Zero
    ELSE Norm(IF x.m < 0 THEN -1 ELSE 1, RoundDiv(Abs(x.m), -x.e), 0)

\* round(x, 3) of a numpy.float64: numpy.round scales, rounds to an integer, scales back.
FRound3(x) == FDiv(FRint(FMul(x, FInt(1000))), FInt(1000))

(***************************************************************************)
(* Strings.  A unit token is a sequence of one-character strings, so that  *)
(* str.lower() and str.upper() are computed character by character.        *)
(***************************************************************************)
UpperLetters ==
    << "A", "B", "C", "D", "E", "F", "G", "H", "I", "J", "K", "L", "M",
       "N", "O", "P", "Q", "R", "S", "T", "U", "V", "W", "X", "Y", "Z" >>

LowerLetters ==
    << "a", "b", "c", "d", "e", "f", "g", "h", "i", "j", "k", "l", "m",
       "n", "o", "p", "q", "r", "s", "t", "u", "v", "w", "x", "y", "z" >>

LowerChar(c) ==
    IF \E i \in DOMAIN UpperLetters : UpperLetters[i] = c
    THEN LowerLetters[CHOOSE i \in DOMAIN UpperLetters : UpperLetters[i] = c]
    ELSE c

UpperChar(c) ==
    IF \E i \in DOMAIN LowerLetters : LowerLetters[i] = c
    THEN UpperLetters[CHOOSE i \in DOMAIN LowerLetters : LowerLetters[i] = c]
    ELSE c

\* unit.lower(), unit.upper()
Lower(unit) == [i \in DOMAIN unit |-> LowerChar(unit[i])]

Upper(unit) == [i \in DOMAIN unit |-> UpperChar(unit[i])]

(***************************************************************************)
(* Unit conversion.  A call either returns a value or raises.              *)
(***************************************************************************)
Returns(v) == [exc |-> "", v |-> v]

Raises(exc) == [exc |-> exc, v |-> NaN]

BTU_TO_W == F(5678, -3)

\* length_to_mm without unit.lower(): the unit tokens compared as written.
length_to_mm_as_written(value, unit) ==
    IF unit = <<"m", "m">> THEN Returns(value)
    ELSE IF unit = <<"m">> THEN Returns(FMul(value, F(1000, 0)))
    ELSE IF unit = <<"f", "t">> THEN Returns(FMul(value, F(3048, -1)))
    ELSE IF unit = <<"i", "n">> THEN Returns(FMul(value, F(254, -1)))
    ELSE Raises("ValueError")

length_to_mm(value, unit) ==
    LET u == Lower(unit)
    IN  IF u = <<"m", "m">> THEN Returns(value)
        ELSE IF u = <<"m">> THEN Returns(FMul(value, F(1000, 0)))
        ELSE IF u = <<"f", "t">> THEN Returns(FMul(value, F(3048, -1)))
        ELSE IF u = <<"i", "n">> THEN Returns(FMul(value, F(254, -1)))
        ELSE Raises("ValueError")

mm_to_length(value_mm, unit) ==
    LET u == Lower(unit)
    IN  IF u = <<"m", "m">> THEN Returns(value_mm)
        ELSE IF u = <<"m">> THEN Returns(FDiv(value_mm, F(1000, 0)))
        ELSE IF u = <<"f", "t">> THEN Returns(FDiv(value_mm, F(3048, -1)))
        ELSE IF u = <<"i", "n">> THEN Returns(FDiv(value_mm, F(254, -1)))
        ELSE Raises("ValueError")

u_to_metric(u_value, unit) ==
    LET u == Upper(unit)
    IN  IF u = <<"W">> THEN Returns(u_value)
        ELSE IF u = <<"B", "T", "U">> THEN Returns(FMul(u_value, BTU_TO_W))
        ELSE Raises("ValueError")

\* u_to_btu with the conversion applied the wrong way round.
u_to_btu_multiplied(u_value_metric) == FMul(u_value_metric, BTU_TO_W)

u_to_btu(u_value_metric) == FDiv(u_value_metric, BTU_TO_W)

(***************************************************************************)
(* Geometry.  A negative perimeter makes perimeter_mm ** 0.5 a complex     *)
(* number, and min(100.0, <complex>) raises TypeError.                     *)
(***************************************************************************)
dynamic_frame_and_edge(width_mm, height_mm) ==
    LET perimeter_mm == FMul(F(2, 0), FAdd(width_mm, height_mm))
        root == FSqrt(perimeter_mm)
    IN  IF perimeter_mm.m < 0
        THEN [exc |-> "TypeError", frame_width_mm |-> NaN, edge_zone_mm |-> NaN]
        ELSE [exc |-> "",
              frame_width_mm |-> FMax(F(40, 0), FMin(F(100, 0), FMul(F(15, -3), root))),
              edge_zone_mm |-> FMax(F(30, 0), FMin(F(80, 0), FMul(F(10, -3), root)))]

(***************************************************************************)
(* numpy.linalg.lstsq(A, b, rcond=None)[0] for a 2x2 matrix A: the         *)
(* least-squares solution of minimum Euclidean norm.  Full rank: the       *)
(* solution of the system.  Rank one: pinv(A) = A^T / ||A||_F^2.  Zero     *)
(* matrix: the zero vector.  numpy decides the rank from the singular      *)
(* values against rcond; here a zero determinant decides it.               *)
(***************************************************************************)
\* numpy.linalg.solve in place of lstsq: Cramer's rule whatever the rank.
linalg_solve(A, b) ==
    LET det == FSub(FMul(A[1][1], A[2][2]), FMul(A[1][2], A[2][1]))
    IN  << FDiv(FSub(FMul(b[1], A[2][2]), FMul(A[1][2], b[2])), det),
           FDiv(FSub(FMul(A[1][1], b[2]), FMul(b[1], A[2][1])), det) >>

\* A least-squares solve that drops the duplicate second row: the minimum-norm
\* solution of the first equation alone.
lstsq_first_row(A, b) ==
    LET norm == FAdd(FMul(A[1][1], A[1][1]), FMul(A[1][2], A[1][2]))
    IN  IF norm.m = 0 THEN << Zero, Zero >>
        ELSE << FDiv(FMul(A[1][1], b[1]), norm), FDiv(FMul(A[1][2], b[1]), norm) >>

lstsq(A, b) ==
    LET det == FSub(FMul(A[1][1], A[2][2]), FMul(A[1][2], A[2][1]))
        frob == FAdd(FAdd(FMul(A[1][1], A[1][1]), FMul(A[1][2], A[1][2])),
                     FAdd(FMul(A[2][1], A[2][1]), FMul(A[2][2], A[2][2])))
    IN  IF det.m # 0
        THEN << FDiv(FSub(FMul(b[1], A[2][2]), FMul(A[1][2], b[2])), det),
                FDiv(FSub(FMul(A[1][1], b[2]), FMul(b[1], A[2][1])), det) >>
        ELSE IF frob.m = 0 THEN << Zero, Zero >>
        ELSE << FDiv(FAdd(FMul(A[1][1], b[1]), FMul(A[2][1], b[2])), frob),
                FDiv(FAdd(FMul(A[1][2], b[1]), FMul(A[2][2], b[2])), frob) >>

solve_frame_and_edge_u(U_glass1_metric, U_total1_metric, U_glass2_metric, U_total2_metric, A_glass, A_frame, A_edge) ==
    LET A_total == FAdd(FAdd(A_glass, A_frame), A_edge)
        A == << << A_frame, A_edge >>,
                << A_frame, A_edge >> >>
        b == << FSub(FMul(U_total1_metric, A_total), FMul(U_glass1_metric, A_glass)),
                FSub(FMul(U_total2_metric, A_total), FMul(U_glass2_metric, A_glass)) >>
    IN  lstsq(A, b)

(***************************************************************************)
(* Inputs of the calls that are explored.                                  *)
(***************************************************************************)
MaxPanels == 4

RecessSteps == 2

Widths == { F(-1000, 0), Zero, F(5, -4), F(24, 0), F(100, 0), F(2000, 0) }

Heights == { F(5, -4), F(12, 0), F(100, 0), F(2000, 0) }

GlassUs == { F(25, -2) }

\* <<ref_glass_u1, ref_total_u1, ref_glass_u2, ref_total_u2>>: the defaults of
\* estimate_u_value, and a pair with equal glass U-values.
DefaultRefs == << F(25, -2), F(41, -2), F(30, -2), F(46, -2) >>

EqualGlassRefs == << F(30, -2), F(41, -2), F(30, -2), F(46, -2) >>

RefSets == { DefaultRefs, EqualGlassRefs }

\* panels: both sides of the `panels > 2` test, and the largest count explored.
PanelCounts == { 2, 3, MaxPanels }

\* recess_fraction: a grid over [0, 1] and one step beyond either end.
RecessFractions == { FDiv(FInt(i), FInt(RecessSteps)) : i \in -1 .. RecessSteps + 1 }

\* recess_effectiveness: the default of estimate_u_value, the one value the form passes.
RecessEffectivenesses == { F(6, -1) }

SizeUnits ==
    { <<"m", "m">>, <<"M", "M">>, <<"m">>, <<"M">>, <<"f", "t">>, <<"F", "t">>,
      <<"i", "n">>, <<"I", "N">>, <<"c", "m">>, <<>> }

UUnits == { <<"B", "T", "U">>, <<"b", "t", "u">>, <<"W">>, <<"w">>, <<"K">> }

Call(width, height, size_unit, glass_u, glass_u_unit, panels, refs, ref_u_unit, recess_fraction, recess_effectiveness) ==
    [width |-> width, height |-> height, size_unit |-> size_unit,
     glass_u |-> glass_u, glass_u_unit |-> glass_u_unit, panels |-> panels,
     ref_glass_u1 |-> refs[1], ref_total_u1 |-> refs[2],
     ref_glass_u2 |-> refs[3], ref_total_u2 |-> refs[4],
     ref_u_unit |-> ref_u_unit,
     recess_fraction |-> recess_fraction,
     recess_effectiveness |-> recess_effectiveness]

\* Calls that vary the numbers, in millimetres and in feet.
NumericCalls ==
    { Call(w, h, u, g, <<"B", "T", "U">>, p, r, <<"B", "T", "U">>, rf, re) :
        w \in Widths, h \in Heights, u \in { <<"m", "m">>, <<"f", "t">> },
        g \in GlassUs, p \in PanelCounts, r \in RefSets,
        rf \in RecessFractions, re \in RecessEffectivenesses }

\* Calls that vary the unit tokens, with the form's default door (12 x 9).
UnitCalls ==
    { Call(F(12, 0), F(9, 0), u, F(30, -2), gu, 2, DefaultRefs, ru, Zero, F(6, -1)) :
        u \in SizeUnits, gu \in UUnits, ru \in UUnits }

(***************************************************************************)
(* The Dimensions form.  Streamlit runs the whole script again after every *)
(* interaction.  The Width and Height inputs are keyed by the size unit: a *)
(* widget whose key was not rendered in the previous run is new and takes  *)
(* its `value` argument, otherwise it returns what the user left in it.    *)
(* number_input raises when a new widget's value is below min_value.       *)
(***************************************************************************)
NoWidget == [k |-> "none"]

\* The options of the Size Unit selectbox; index 0 is ft.
FormSizeUnits == { <<"f", "t">>, <<"m">>, <<"m", "m">>, <<"i", "n">> }

\* st.session_state after the initialisation at the top of the script.
SessionDefaults ==
    [width_mm |-> length_to_mm(F(12, 0), <<"f", "t">>).v,
     height_mm |-> length_to_mm(F(9, 0), <<"f", "t">>).v,
     size_unit_prev |-> <<"f", "t">>]

max_height_display_of(size_unit) == mm_to_length(F(6000, 0), size_unit).v

\* One run of the Dimensions part of the script with the session state ss, the
\* selected size_unit, and the values held by the Width and Height inputs
\* (NoWidget for a new widget).
script_run(ss, size_unit, width_widget, height_widget) ==
    LET width_display == mm_to_length(ss.width_mm, size_unit).v
        height_display_0 == mm_to_length(ss.height_mm, size_unit).v
        ss_1 == [ss EXCEPT !.size_unit_prev = size_unit]
        width == IF width_widget = NoWidget THEN width_display ELSE width_widget
        ss_2 == [ss_1 EXCEPT !.width_mm = length_to_mm(width, size_unit).v]
        max_height_display == max_height_display_of(size_unit)
        height_display == FMin(height_display_0, FMul(max_height_display, F(95, -2)))
        height == IF height_widget = NoWidget THEN height_display ELSE height_widget
        ss_3 == [ss_2 EXCEPT !.height_mm = length_to_mm(height, size_unit).v]
    IN  IF FLt(width, F(1, -1))
        THEN [session_state |-> ss_1, width |-> NoWidget, height |-> NoWidget,
              exc |-> "StreamlitAPIException"]
        ELSE IF FLt(height, F(1, -1)) \/ FLt(max_height_display, height)
        THEN [session_state |-> ss_2, width |-> width, height |-> NoWidget,
              exc |-> "StreamlitAPIException"]
        ELSE [session_state |-> ss_3, width |-> width, height |-> height, exc |-> ""]

\* The form after a run: the widgets, and the stored dimensions to compare with.
FormAfter(run, size_unit, before) ==
    [size_unit |-> size_unit, width |-> run.width, height |-> run.height,
     exc |-> run.exc, before |-> before]

StoredDimensions(ss) == [width_mm |-> ss.width_mm, height_mm |-> ss.height_mm]

\* The first run of the script: new widgets, size unit ft.
FirstRun == script_run(SessionDefaults, <<"f", "t">>, NoWidget, NoWidget)

(***************************************************************************)
(* State.                                                                  *)
(*   args   the arguments the caller passed to estimate_u_value            *)
(*   loc    the local variables of the running call (parameters included)  *)
(*   pc     the section of estimate_u_value about to run                   *)
(*   ret    what the call has produced: nothing yet, a result, an exception*)
(*   prev   the arguments and the outcome of the caller's previous call    *)
(*   session_state  st.session_state: the stored width_mm, height_mm and    *)
(*          size_unit_prev                                                  *)
(*   form   the Dimensions widgets: the selected size unit, the values the  *)
(*          Width and Height inputs return, the exception of the last run,  *)
(*          and the stored dimensions as they were after the last edit      *)
(***************************************************************************)
VARIABLES args, loc, pc, ret, prev, session_state, form

vars == << args, loc, pc, ret, prev, session_state, form >>

NoReturn == [kind |-> "none"]

NoCall == [kind |-> "none"]

Init ==
    /\ args \in NumericCalls \cup UnitCalls
    /\ loc = args
    /\ pc = "scale"
    /\ ret = NoReturn
    /\ prev = NoCall
    /\ session_state = FirstRun.session_state
    /\ form = FormAfter(FirstRun, <<"f", "t">>, StoredDimensions(FirstRun.session_state))

\* Binding local variables: the new bindings shadow the old ones.
Bind(new) == new @@ loc

Raise(exc) ==
    /\ pc' = "raised"
    /\ ret' = [kind |-> "raise", exc |-> exc, at |-> pc]
    /\ UNCHANGED << args, loc, prev, session_state, form >>

Goto(next, new) ==
    /\ pc' = next
    /\ loc' = Bind(new)
    /\ UNCHANGED << args, ret, prev, session_state, form >>

\* Panel scaling applied to the height as well as the width.
ScalePanelsAndHeight ==
    /\ pc = "scale"
    /\ IF loc.panels > 2
       THEN LET scale_factor == FDiv(F(2, 0), FInt(loc.panels))
            IN  Goto("sizes", [scale_factor |-> scale_factor,
                               width |-> FMul(loc.width, scale_factor),
                               height |-> FMul(loc.height, scale_factor)])
       ELSE Goto("sizes", << >>)

\* ---- 0. scale for multi-panel systems (lines 160-165)
ScalePanels ==
    /\ pc = "scale"
    /\ IF loc.panels > 2
       THEN LET scale_factor == FDiv(F(2, 0), FInt(loc.panels))
            IN  Goto("sizes", [scale_factor |-> scale_factor,
                               width |-> FMul(loc.width, scale_factor)])
       ELSE Goto("sizes", << >>)

\* ---- 1. convert sizes (lines 167-171)
ConvertSizes ==
    /\ pc = "sizes"
    /\ LET w == length_to_mm(loc.width, loc.size_unit)
           h == length_to_mm(loc.height, loc.size_unit)
       IN  IF w.exc # "" THEN Raise(w.exc)
           ELSE IF h.exc # "" THEN Raise(h.exc)
           ELSE Goto("uvalues", [width_mm |-> w.v, height_mm |-> h.v,
                                 width_m |-> FDiv(w.v, F(1000, 0)),
                                 height_m |-> FDiv(h.v, F(1000, 0))])

\* ---- 2. convert U-values to metric (lines 173-179)
ConvertU ==
    /\ pc = "uvalues"
    /\ LET g == u_to_metric(loc.glass_u, loc.glass_u_unit)
           g1 == u_to_metric(loc.ref_glass_u1, loc.ref_u_unit)
           t1 == u_to_metric(loc.ref_total_u1, loc.ref_u_unit)
           g2 == u_to_metric(loc.ref_glass_u2, loc.ref_u_unit)
           t2 == u_to_metric(loc.ref_total_u2, loc.ref_u_unit)
       IN  IF g.exc # "" THEN Raise(g.exc)
           ELSE IF g1.exc # "" THEN Raise(g1.exc)
           ELSE IF t1.exc # "" THEN Raise(t1.exc)
           ELSE IF g2.exc # "" THEN Raise(g2.exc)
           ELSE IF t2.exc # "" THEN Raise(t2.exc)
           ELSE Goto("geometry", [U_glass_metric |-> g.v,
                                  U_glass1_metric |-> g1.v, U_total1_metric |-> t1.v,
                                  U_glass2_metric |-> g2.v, U_total2_metric |-> t2.v])

\* ---- 3. geometry (line 182)
Geometry ==
    /\ pc = "geometry"
    /\ LET fe == dynamic_frame_and_edge(loc.width_mm, loc.height_mm)
       IN  IF fe.exc # "" THEN Raise(fe.exc)
           ELSE Goto("areas", [frame_width_mm |-> fe.frame_width_mm,
                               edge_zone_mm |-> fe.edge_zone_mm])

\* The area partition with A_frame taken from the edge annulus before its clamp.
area_partition_unclamped_edge(width_mm, height_mm, frame_width_mm, edge_zone_mm) ==
    LET fw2 == FMul(F(2, 0), frame_width_mm)
        ez2 == FMul(F(2, 0), edge_zone_mm)
        A_total == FDiv(FMul(width_mm, height_mm), F(1, 6))
        A_glass == FDiv(FMul(FSub(width_mm, fw2), FSub(height_mm, fw2)), F(1, 6))
        annulus == FDiv(FSub(FMul(FAdd(FSub(width_mm, fw2), ez2),
                                  FAdd(FSub(height_mm, fw2), ez2)),
                             FMul(FSub(FSub(width_mm, fw2), ez2),
                                  FSub(FSub(height_mm, fw2), ez2))),
                        F(1, 6))
    IN  [A_total |-> A_total, A_glass |-> A_glass, A_edge |-> FMax(Zero, annulus),
         A_frame |-> FSub(FSub(A_total, A_glass), annulus)]

\* ---- 3. areas (lines 184-199)
area_partition(width_mm, height_mm, frame_width_mm, edge_zone_mm) ==
    LET fw2 == FMul(F(2, 0), frame_width_mm)
        ez2 == FMul(F(2, 0), edge_zone_mm)
        A_total == FDiv(FMul(width_mm, height_mm), F(1, 6))
        A_glass == FDiv(FMul(FSub(width_mm, fw2), FSub(height_mm, fw2)), F(1, 6))
        annulus == FDiv(FSub(FMul(FAdd(FSub(width_mm, fw2), ez2),
                                  FAdd(FSub(height_mm, fw2), ez2)),
                             FMul(FSub(FSub(width_mm, fw2), ez2),
                                  FSub(FSub(height_mm, fw2), ez2))),
                        F(1, 6))
        A_edge == FMax(Zero, annulus)
        A_frame == FSub(FSub(A_total, A_glass), A_edge)
    IN  [A_total |-> A_total, A_glass |-> A_glass, A_edge |-> A_edge, A_frame |-> A_frame]

Areas ==
    /\ pc = "areas"
    /\ Goto("solve", area_partition(loc.width_mm, loc.height_mm,
                                    loc.frame_width_mm, loc.edge_zone_mm))

\* ---- back-calculate frame/edge U-values (lines 201-206)
Solve ==
    /\ pc = "solve"
    /\ LET x == solve_frame_and_edge_u(loc.U_glass1_metric, loc.U_total1_metric,
                                       loc.U_glass2_metric, loc.U_total2_metric,
                                       loc.A_glass, loc.A_frame, loc.A_edge)
       IN  Goto("recess", [U_frame_metric |-> x[1], U_edge_metric |-> x[2]])

\* ---- 4. frame recess adjustment (lines 208-212)
clamp01(x) == FMax(Zero, FMin(F(1, 0), x))

\* The recess adjustment with its sign reversed.
recess_adjust_reversed(U_frame_metric, recess_fraction, recess_effectiveness) ==
    FMul(U_frame_metric, FAdd(F(1, 0), FMul(recess_fraction, recess_effectiveness)))

recess_adjust(U_frame_metric, recess_fraction, recess_effectiveness) ==
    FMul(U_frame_metric, FSub(F(1, 0), FMul(recess_fraction, recess_effectiveness)))

Recess ==
    /\ pc = "recess"
    /\ LET rf == clamp01(loc.recess_fraction)
           re == clamp01(loc.recess_effectiveness)
       IN  Goto("weighted", [recess_fraction |-> rf, recess_effectiveness |-> re,
                             U_frame_adj_metric |-> recess_adjust(loc.U_frame_metric, rf, re)])

\* ---- 5. area-weighted base U (lines 214-219); the numerator is a numpy.float64,
\* so a zero A_total gives an infinity or a NaN, not an exception.
area_weighted(U_glass_metric, A_glass, U_edge_metric, A_edge, U_frame_adj_metric, A_frame, A_total) ==
    FDiv(FAdd(FAdd(FMul(U_glass_metric, A_glass), FMul(U_edge_metric, A_edge)),
              FMul(U_frame_adj_metric, A_frame)),
         A_total)

Weighted ==
    /\ pc = "weighted"
    /\ Goto("correction",
            [U_weighted_metric |->
                area_weighted(loc.U_glass_metric, loc.A_glass, loc.U_edge_metric,
                              loc.A_edge, loc.U_frame_adj_metric, loc.A_frame,
                              loc.A_total)])

\* ---- 6. non-linear size + aspect ratio correction (lines 221-232)
aspect_ratio_of(width_m, height_m) == FDiv(height_m, FMax(width_m, F(1, -6)))

\* The aspect factor without abs().
aspect_factor_signed(aspect_ratio) ==
    FAdd(F(1, 0), FMul(F(2, -2), FSub(aspect_ratio, F(1, 0))))

aspect_factor_of(aspect_ratio) ==
    FAdd(F(1, 0), FMul(F(2, -2), FAbs(FSub(aspect_ratio, F(1, 0)))))

size_factor_of(width_mm, height_mm) ==
    FDiv(FMul(width_mm, height_mm), FMul(F(2000, 0), F(2000, 0)))

size_factor_correction_of(size_factor) ==
    FExp(FMul(F(-6, -2), FSub(size_factor, F(1, 0))))

Correction ==
    /\ pc = "correction"
    /\ LET aspect_ratio == aspect_ratio_of(loc.width_m, loc.height_m)
           size_factor == size_factor_of(loc.width_mm, loc.height_mm)
           aspect_factor == aspect_factor_of(aspect_ratio)
           size_factor_correction == size_factor_correction_of(size_factor)
           U_final_metric == FMul(FMul(loc.U_weighted_metric, aspect_factor),
                                  size_factor_correction)
       IN  Goto("return", [aspect_ratio |-> aspect_ratio, size_factor |-> size_factor,
                           aspect_factor |-> aspect_factor,
                           size_factor_correction |-> size_factor_correction,
                           U_final_metric |-> U_final_metric,
                           U_final_btu |-> u_to_btu(U_final_metric)])

\* ---- the returned dict (lines 234-261)
result_of(l) ==
    [U_metric |-> FRound3(l.U_final_metric),
     U_btu |-> FRound3(l.U_final_btu),
     areas_m2 |-> [A_total |-> l.A_total, A_glass |-> l.A_glass,
                   A_edge |-> l.A_edge, A_frame |-> l.A_frame],
     U_components_metric |-> [U_glass |-> l.U_glass_metric,
                              U_edge |-> FRound3(l.U_edge_metric),
                              U_frame_raw |-> FRound3(l.U_frame_metric),
                              U_frame_adjusted |-> FRound3(l.U_frame_adj_metric)],
     debug |-> [aspect_ratio |-> l.aspect_ratio, size_factor |-> l.size_factor,
                frame_width_mm |-> l.frame_width_mm, edge_zone_mm |-> l.edge_zone_mm,
                scaled_width |-> l.width, scaled_height |-> l.height,
                panels |-> l.panels]]

Return ==
    /\ pc = "return"
    /\ pc' = "returned"
    /\ ret' = [kind |-> "result", value |-> result_of(loc)]
    /\ UNCHANGED << args, loc, prev, session_state, form >>

\* The caller (the form's rerun after the recess slider is moved up) calls again
\* with a larger recess_fraction and every other argument as before.
CallAgain ==
    /\ pc = "returned"
    /\ \E rf \in RecessFractions :
          /\ FLt(args.recess_fraction, rf)
          /\ args' = [args EXCEPT !.recess_fraction = rf]
          /\ loc' = args'
    /\ prev' = [kind |-> "call", args |-> args, ret |-> ret]
    /\ pc' = "scale"
    /\ ret' = NoReturn
    /\ UNCHANGED << session_state, form >>

Next ==
    \/ ScalePanels
    \/ ConvertSizes
    \/ ConvertU
    \/ Geometry
    \/ Areas
    \/ Solve
    \/ Recess
    \/ Weighted
    \/ Correction
    \/ Return
    \/ CallAgain

Spec == Init /\ [][Next]_vars

(***************************************************************************)
(* A caller that edits the reference cases between two calls: the form's   *)
(* reference inputs followed by the Calculate button.                      *)
(***************************************************************************)
RefsOf(a) == << a.ref_glass_u1, a.ref_total_u1, a.ref_glass_u2, a.ref_total_u2 >>

\* Reference pair 1 exchanged with reference pair 2.
SwapRefs(r) == << r[3], r[4], r[1], r[2] >>

\* Other pairs with the same two sums: 0.05 moved from glass 1 to glass 2 and
\* 0.01 from total 1 to total 2.
ShiftRefs(r) ==
    << FSub(r[1], F(5, -2)), FSub(r[2], F(1, -2)),
       FAdd(r[3], F(5, -2)), FAdd(r[4], F(1, -2)) >>

\* The caller calls again with other reference pairs, chosen among those with
\* the same sums as the pairs of the first call, and every other argument as
\* before; the locals of the finished call are kept for comparison.
ChangeRefs ==
    /\ pc = "returned"
    /\ prev = NoCall
    /\ \E r \in { SwapRefs(RefsOf(args)), ShiftRefs(RefsOf(args)) } :
          /\ r # RefsOf(args)
          /\ args' = [args EXCEPT !.ref_glass_u1 = r[1], !.ref_total_u1 = r[2],
                                  !.ref_glass_u2 = r[3], !.ref_total_u2 = r[4]]
          /\ loc' = args'
    /\ prev' = [kind |-> "refs", args |-> args, ret |-> ret, loc |-> loc]
    /\ pc' = "scale"
    /\ ret' = NoReturn
    /\ UNCHANGED << session_state, form >>

NextRefs ==
    \/ ScalePanels
    \/ ConvertSizes
    \/ ConvertU
    \/ Geometry
    \/ Areas
    \/ Solve
    \/ Recess
    \/ Weighted
    \/ Correction
    \/ Return
    \/ ChangeRefs

SpecRefs == Init /\ [][NextRefs]_vars

(***************************************************************************)
(* The user at the Dimensions form: selecting a size unit, editing the     *)
(* Width or the Height field.  Each interaction is one run of the script.  *)
(***************************************************************************)
\* What the user types into the Width field (any unit; min_value 0.1).
WidthEntries == { F(1, -1), F(12, 0), F(2500, 0) }

\* What the user types into the Height field: within [0.1, max_height_display].
HeightEntries(size_unit) ==
    { h \in { F(1, -1), F(9, 0), max_height_display_of(size_unit) } :
        FLe(F(1, -1), h) /\ FLe(h, max_height_display_of(size_unit)) }

InitForm ==
    /\ args = NoCall
    /\ loc = NoCall
    /\ pc = "form"
    /\ ret = NoReturn
    /\ prev = NoCall
    /\ session_state = FirstRun.session_state
    /\ form = FormAfter(FirstRun, <<"f", "t">>, StoredDimensions(FirstRun.session_state))

\* The user selects another size unit: the Width and Height inputs of that unit
\* are new widgets.
SelectSizeUnit ==
    /\ pc = "form"
    /\ \E size_unit \in FormSizeUnits \ { form.size_unit } :
          LET run == script_run(session_state, size_unit, NoWidget, NoWidget)
          IN  /\ session_state' = run.session_state
              /\ form' = FormAfter(run, size_unit, form.before)
    /\ UNCHANGED << args, loc, pc, ret, prev >>

\* The user edits the Width field.
EditWidth ==
    /\ pc = "form"
    /\ form.width # NoWidget
    /\ \E width \in WidthEntries :
          LET run == script_run(session_state, form.size_unit, width, form.height)
          IN  /\ session_state' = run.session_state
              /\ form' = FormAfter(run, form.size_unit,
                                   StoredDimensions(run.session_state))
    /\ UNCHANGED << args, loc, pc, ret, prev >>

\* The user edits the Height field.
EditHeight ==
    /\ pc = "form"
    /\ form.height # NoWidget
    /\ \E height \in HeightEntries(form.size_unit) :
          LET run == script_run(session_state, form.size_unit, form.width, height)
          IN  /\ session_state' = run.session_state
              /\ form' = FormAfter(run, form.size_unit,
                                   StoredDimensions(run.session_state))
    /\ UNCHANGED << args, loc, pc, ret, prev >>

NextForm ==
    \/ SelectSizeUnit
    \/ EditWidth
    \/ EditHeight

SpecForm == InitForm /\ [][NextForm]_vars

(***************************************************************************)
(* Properties.                                                             *)
(***************************************************************************)
BTU == <<"B", "T", "U">>

Returned == pc = "returned" /\ ret.kind = "result"

Positive(x) == IsFin(x) /\ x.m > 0

\* Equal up to rounding: within ten units in the last place of the larger one.
Tol == F(1, 2 - Digits)

Close(x, y) ==
    /\ IsFin(x)
    /\ IsFin(y)
    /\ FLe(FAbs(FSub(x, y)), FMul(Tol, FMax(FAbs(x), FAbs(y))))

\* The sections of estimate_u_value that follow the area computation.
AfterAreas == { "solve", "recess", "weighted", "correction", "return", "returned" }

AfterSolve == AfterAreas \ { "solve" }

AfterCorrection == { "return", "returned" }

\* The call of the calibration case: the 2 m x 2 m reference door.
IsCalibrationCall(a) ==
    /\ a.width = F(2000, 0)
    /\ a.height = F(2000, 0)
    /\ a.size_unit = <<"m", "m">>
    /\ a.panels = 2
    /\ a.glass_u = F(25, -2)
    /\ a.glass_u_unit = BTU
    /\ << a.ref_glass_u1, a.ref_total_u1, a.ref_glass_u2, a.ref_total_u2 >> = DefaultRefs
    /\ a.ref_u_unit = BTU
    /\ a.recess_fraction = Zero

\* C1: the calibration call returns a U_btu within 0.005 of 0.41.
C1_CalibrationReproduced ==
    (Returned /\ IsCalibrationCall(args)) =>
        /\ IsFin(ret.value.U_btu)
        /\ FLt(FAbs(FSub(ret.value.U_btu, F(41, -2))), F(5, -3))

C1_Witness ==
    /\ Returned
    /\ IsCalibrationCall(args)
    /\ ret.value.U_btu = F(412, -3)
    /\ ret.value.U_metric = F(2339, -3)

\* C2: in every returned result A_glass + A_edge + A_frame equals A_total up to
\* rounding, and A_total is width_mm * height_mm / 1e6 of the panel-scaled size.
C2_AreaPartitionSums ==
    Returned =>
        LET a == ret.value.areas_m2
            sum == FAdd(FAdd(a.A_glass, a.A_edge), a.A_frame)
            largest == FMax(FMax(FAbs(a.A_glass), FAbs(a.A_edge)),
                            FMax(FAbs(a.A_frame), FAbs(a.A_total)))
        IN  /\ FLe(FAbs(FSub(sum, a.A_total)), FMul(Tol, largest))
            /\ a.A_total = FDiv(FMul(loc.width_mm, loc.height_mm), F(1, 6))

\* A result whose A_edge was clamped up to 0 and whose A_frame is negative.
C2_Witness ==
    /\ Returned
    /\ ret.value.areas_m2.A_edge = Zero
    /\ ret.value.areas_m2.A_frame.m < 0
    /\ ret.value.areas_m2.A_glass.m > 0
    /\ ret.value.areas_m2.A_total.m > 0

\* C3: the width used and reported is width * 2 / panels when panels > 2 and the
\* caller's width otherwise; the height is the caller's height.
C3_PanelScaling ==
    (pc \in { "sizes", "uvalues", "geometry", "areas" } \cup AfterAreas) =>
        /\ IF args.panels > 2
           THEN Close(loc.width, FDiv(FMul(args.width, F(2, 0)), FInt(args.panels)))
           ELSE loc.width = args.width
        /\ loc.height = args.height
        /\ (pc # "sizes" =>
              /\ loc.width_mm = length_to_mm(loc.width, args.size_unit).v
              /\ loc.height_mm = length_to_mm(args.height, args.size_unit).v)
        /\ (pc \in AfterAreas =>
              loc.A_total = FDiv(FMul(loc.width_mm, loc.height_mm), F(1, 6)))
        /\ (pc \in AfterCorrection =>
              /\ loc.aspect_ratio = FDiv(loc.height_m, FMax(loc.width_m, F(1, -6)))
              /\ loc.size_factor =
                    FDiv(FMul(loc.width_mm, loc.height_mm), F(4000000, 0)))
        /\ (Returned =>
              /\ ret.value.debug.scaled_width = loc.width
              /\ ret.value.debug.scaled_height = args.height)

\* panels = 4, width = 24 ft, height = 12 ft: scaled_width = 12, scaled_height = 12.
C3_Witness ==
    /\ Returned
    /\ args.panels = 4
    /\ args.width = F(24, 0)
    /\ args.height = F(12, 0)
    /\ args.size_unit = <<"f", "t">>
    /\ ret.value.debug.scaled_width = F(12, 0)
    /\ ret.value.debug.scaled_height = F(12, 0)

\* The caller's previous call returned a result, and this call differs from it
\* only by a larger recess_fraction (CallAgain changes nothing else).
SecondCall ==
    /\ Returned
    /\ prev.kind = "call"
    /\ prev.ret.kind = "result"
    /\ prev.args = [args EXCEPT !.recess_fraction = prev.args.recess_fraction]
    /\ FLt(prev.args.recess_fraction, args.recess_fraction)

PositiveInputs(a) ==
    /\ Positive(a.width)
    /\ Positive(a.height)
    /\ Positive(a.glass_u)
    /\ Positive(a.ref_glass_u1)
    /\ Positive(a.ref_total_u1)
    /\ Positive(a.ref_glass_u2)
    /\ Positive(a.ref_total_u2)

\* C4: of two calls with valid inputs that differ only in recess_fraction (with
\* recess_effectiveness > 0), the one with the larger recess_fraction returns a
\* U_frame_adjusted that is not greater.
C4_RecessMonotone ==
    (SecondCall /\ PositiveInputs(args) /\ Positive(args.recess_effectiveness)) =>
        FLe(ret.value.U_components_metric.U_frame_adjusted,
            prev.ret.value.U_components_metric.U_frame_adjusted)

\* C5: every returned area is non-negative when width > 0, height > 0, panels >= 1.
C5_AreasNonNegative ==
    (Returned /\ Positive(args.width) /\ Positive(args.height) /\ args.panels >= 1) =>
        /\ ret.value.areas_m2.A_total.m >= 0
        /\ ret.value.areas_m2.A_glass.m >= 0
        /\ ret.value.areas_m2.A_edge.m >= 0
        /\ ret.value.areas_m2.A_frame.m >= 0

\* C6: with width <= 0 or height <= 0 the call raises before any derived
\* computation: it never reaches the geometry and never returns a result.
C6_NonPositiveRejected ==
    (~Positive(args.width) \/ ~Positive(args.height)) =>
        /\ pc \notin { "areas" } \cup AfterAreas
        /\ ret.kind # "result"

\* The supported unit tokens in every letter case, written out.
SupportedSizeUnits ==
    { <<"m", "m">>, <<"M", "m">>, <<"m", "M">>, <<"M", "M">>,
      <<"m">>, <<"M">>,
      <<"f", "t">>, <<"F", "t">>, <<"f", "T">>, <<"F", "T">>,
      <<"i", "n">>, <<"I", "n">>, <<"i", "N">>, <<"I", "N">> }

SupportedUUnits ==
    { <<"W">>, <<"w">> }
    \cup { << b, t, u >> : b \in { "B", "b" }, t \in { "T", "t" }, u \in { "U", "u" } }

UnitsSupported(a) ==
    /\ a.size_unit \in SupportedSizeUnits
    /\ a.glass_u_unit \in SupportedUUnits
    /\ a.ref_u_unit \in SupportedUUnits

UnitError == pc = "raised" /\ ret.kind = "raise" /\ ret.exc = "ValueError"

\* C7 as stated: the call raises an error exactly when a unit is unsupported.
C7_ErrorIffUnsupportedUnit ==
    /\ (pc = "raised" => ~UnitsSupported(args))
    /\ (~UnitsSupported(args) => pc \in { "scale", "sizes", "uvalues", "raised" })

\* C7 (amended): the call raises a unit error (ValueError), and returns no result,
\* exactly when a unit is unsupported; it is raised in the conversion sections,
\* before geometry, areas or the reference solve are computed; with supported
\* units in any letter case no unit error is raised.
C7_UnitErrorIffUnsupportedUnit ==
    /\ (UnitError =>
          /\ ~UnitsSupported(args)
          /\ ret.at \in { "sizes", "uvalues" }
          /\ (ret.at = "sizes") = (args.size_unit \notin SupportedSizeUnits)
          /\ DOMAIN loc \cap { "frame_width_mm", "edge_zone_mm", "A_total", "A_glass",
                               "A_edge", "A_frame", "U_frame_metric",
                               "U_edge_metric" } = { })
    /\ (~UnitsSupported(args) =>
          /\ pc \in { "scale", "sizes", "uvalues", "raised" }
          /\ ret.kind # "result"
          /\ (pc = "raised" => UnitError)
          /\ (pc = "uvalues" => args.size_unit \in SupportedSizeUnits))
    /\ (UnitsSupported(args) => ~UnitError)

\* A unit error for an unsupported U-value unit, after a size unit in upper case
\* was accepted.
C7_Witness ==
    /\ UnitError
    /\ ret.at = "uvalues"
    /\ args.size_unit = <<"M", "M">>
    /\ args.glass_u_unit = <<"b", "t", "u">>
    /\ args.ref_u_unit = <<"K">>

\* C8: the reference solve never fails and, unless A_frame = A_edge = 0, returns
\* the minimum-norm least-squares solution (U_frame, U_edge) = c * (A_frame, A_edge)
\* with c = ((b_1 + b_2) / 2) / (A_frame^2 + A_edge^2), so that
\* A_frame * U_frame + A_edge * U_edge = (b_1 + b_2) / 2 (all up to rounding).
C8_MinimumNormSolution ==
    /\ (pc = "raised" => ret.at # "solve")
    /\ (pc \in AfterSolve =>
          LET A_total == FAdd(FAdd(loc.A_glass, loc.A_frame), loc.A_edge)
              b_1 == FSub(FMul(loc.U_total1_metric, A_total),
                          FMul(loc.U_glass1_metric, loc.A_glass))
              b_2 == FSub(FMul(loc.U_total2_metric, A_total),
                          FMul(loc.U_glass2_metric, loc.A_glass))
              mean == FDiv(FAdd(b_1, b_2), F(2, 0))
              c == FDiv(mean, FAdd(FMul(loc.A_frame, loc.A_frame),
                                   FMul(loc.A_edge, loc.A_edge)))
          IN  (loc.A_frame # Zero \/ loc.A_edge # Zero) =>
                 /\ Close(loc.U_frame_metric, FMul(c, loc.A_frame))
                 /\ Close(loc.U_edge_metric, FMul(c, loc.A_edge))
                 /\ Close(FAdd(FMul(loc.A_frame, loc.U_frame_metric),
                               FMul(loc.A_edge, loc.U_edge_metric)), mean))

\* The solve has run for two reference cases with equal glass U-values.
C8_Witness ==
    /\ pc = "recess"
    /\ loc.U_glass1_metric = loc.U_glass2_metric
    /\ loc.U_total1_metric # loc.U_total2_metric
    /\ loc.A_frame.m < 0
    /\ loc.A_edge.m > 0
    /\ loc.U_frame_metric.m < 0
    /\ loc.U_edge_metric.m > 0

\* The aspect penalty aspect_factor - 1 of the running call.
AspectPenalty == FSub(loc.aspect_factor, F(1, 0))

\* Further from square than rounding: more than 100 units in the last place.
FarFrom(x, y) == ~FLe(FAbs(FSub(x, y)), FMul(F(1, 3 - Digits), FMax(FAbs(x), FAbs(y))))

\* C9 as stated: for positive width and height the penalty is zero exactly when
\* the panel-scaled width equals the height, and strictly positive otherwise.
C9_PenaltyZeroIffSquare ==
    (pc \in AfterCorrection /\ Positive(loc.width) /\ Positive(loc.height)) =>
        /\ (loc.width = loc.height => AspectPenalty = Zero)
        /\ (loc.width # loc.height => AspectPenalty.m > 0)

\* C9 (amended): aspect_factor = 1 + 0.02 * |aspect - 1| with
\* aspect = height_m / max(width_m, 1e-6); the penalty is zero when height_m equals
\* max(width_m, 1e-6) and strictly positive when the two differ by more than
\* rounding; for a panel-scaled width of at least 0.001 mm that is: zero for a
\* square effective door and strictly positive for every other one.
C9_PenaltyZeroIffHeightEqualsGuardedWidth ==
    (pc \in AfterCorrection /\ Positive(loc.width) /\ Positive(loc.height)) =>
        LET guarded == IF FLt(loc.width_m, F(1, -6)) THEN F(1, -6) ELSE loc.width_m
        IN  /\ Close(loc.aspect_ratio, FDiv(loc.height_m, guarded))
            /\ AspectPenalty.m >= 0
            /\ Close(loc.aspect_factor,
                     FAdd(F(1, 0), FMul(F(2, -2), FAbs(FSub(loc.aspect_ratio, F(1, 0))))))
            /\ (loc.height_m = guarded => AspectPenalty = Zero)
            /\ (FarFrom(loc.height_m, guarded) => AspectPenalty.m > 0)
            /\ (FLe(F(1, -3), loc.width_mm) =>
                   /\ (loc.width = loc.height => AspectPenalty = Zero)
                   /\ (FarFrom(loc.width, loc.height) => AspectPenalty.m > 0))

\* A four-panel door, square after scaling, with no penalty.
C9_Witness ==
    /\ pc = "return"
    /\ args.panels = 4
    /\ args.width # args.height
    /\ loc.width = loc.height
    /\ FLe(F(1, -3), loc.width_mm)
    /\ AspectPenalty = Zero

\* C10: of two calls that differ only in recess_fraction, with
\* recess_effectiveness in [0, 1], effective width and height at least twice the
\* frame width, glass U-value > 0 and each reference total U-value >= its glass
\* U-value > 0, the one with the larger recess_fraction returns a U_metric and a
\* U_btu that are not greater; recess fractions that clamp to the same bound give
\* the same result.
C10_RecessNeverWorsens ==
    SecondCall =>
        /\ (/\ FLe(Zero, args.recess_effectiveness)
            /\ FLe(args.recess_effectiveness, F(1, 0))
            /\ FLe(FMul(F(2, 0), loc.frame_width_mm), loc.width_mm)
            /\ FLe(FMul(F(2, 0), loc.frame_width_mm), loc.height_mm)
            /\ Positive(args.glass_u)
            /\ Positive(args.ref_glass_u1)
            /\ Positive(args.ref_glass_u2)
            /\ FLe(args.ref_glass_u1, args.ref_total_u1)
            /\ FLe(args.ref_glass_u2, args.ref_total_u2)
            => /\ FLe(ret.value.U_metric, prev.ret.value.U_metric)
               /\ FLe(ret.value.U_btu, prev.ret.value.U_btu))
        /\ (\/ (FLe(args.recess_fraction, Zero) /\ FLe(prev.args.recess_fraction, Zero))
            \/ (FLe(F(1, 0), args.recess_fraction)
                /\ FLe(F(1, 0), prev.args.recess_fraction))
            => ret.value = prev.ret.value)

\* A second call with more recess and a strictly smaller final U-value.
C10_Witness ==
    /\ SecondCall
    /\ FLe(FMul(F(2, 0), loc.frame_width_mm), loc.width_mm)
    /\ FLe(FMul(F(2, 0), loc.frame_width_mm), loc.height_mm)
    /\ FLt(ret.value.U_metric, prev.ret.value.U_metric)
    /\ FLt(ret.value.U_btu, prev.ret.value.U_btu)

\* The call that follows a call with other reference pairs of the same sums.
AfterRefsChange == Returned /\ prev.kind = "refs" /\ prev.ret.kind = "result"

\* Equal, or equal up to the rounding of the arithmetic.
Same(x, y) == x = y \/ Close(x, y)

\* The size of the terms that are added up for the final U-value of a call with
\* locals l: rounding errors of the solve are carried into the result in
\* proportion to it (the terms can cancel when A_glass or A_frame is negative).
FinalScale(l) ==
    FMul(FAbs(FMul(l.aspect_factor, l.size_factor_correction)),
         FDiv(FAdd(FAdd(FAbs(FMul(l.U_glass_metric, l.A_glass)),
                        FAbs(FMul(l.U_edge_metric, l.A_edge))),
                   FAbs(FMul(l.U_frame_adj_metric, l.A_frame))),
              FAbs(l.A_total)))

\* Equal, or apart by no more than the rounding error carried into a sum of
\* terms of the given size, plus `step` (the unit of a later round(x, 3)).
SameWithin(x, y, scale, step) ==
    \/ x = y
    \/ /\ IsFin(x)
       /\ IsFin(y)
       /\ IsFin(scale)
       /\ FLe(FAbs(FSub(x, y)), FAdd(step, FMul(Tol, scale)))

\* C11: the result depends on the two reference cases only through their sums:
\* with reference pair 1 and pair 2 exchanged, or replaced by two other pairs with
\* the same ref_glass_u1 + ref_glass_u2 and the same ref_total_u1 + ref_total_u2,
\* and all other inputs fixed, U_frame, U_edge and the final U-value are the same
\* (exactly for the exchange, up to rounding for other pairs).
C11_DependsOnReferenceSums ==
    AfterRefsChange =>
        LET scale == FinalScale(loc)
            milli == F(1, -3)
            now == ret.value
            before == prev.ret.value
        IN  /\ [prev.args EXCEPT !.ref_glass_u1 = args.ref_glass_u1,
                                 !.ref_total_u1 = args.ref_total_u1,
                                 !.ref_glass_u2 = args.ref_glass_u2,
                                 !.ref_total_u2 = args.ref_total_u2] = args
            /\ FAdd(args.ref_glass_u1, args.ref_glass_u2)
                  = FAdd(prev.args.ref_glass_u1, prev.args.ref_glass_u2)
            /\ FAdd(args.ref_total_u1, args.ref_total_u2)
                  = FAdd(prev.args.ref_total_u1, prev.args.ref_total_u2)
            /\ Same(loc.U_frame_metric, prev.loc.U_frame_metric)
            /\ Same(loc.U_edge_metric, prev.loc.U_edge_metric)
            /\ SameWithin(loc.U_final_metric, prev.loc.U_final_metric, scale, Zero)
            /\ SameWithin(loc.U_final_btu, prev.loc.U_final_btu,
                          u_to_btu(scale), Zero)
            /\ SameWithin(now.U_metric, before.U_metric, scale, milli)
            /\ SameWithin(now.U_btu, before.U_btu, u_to_btu(scale), milli)
            /\ SameWithin(now.U_components_metric.U_frame_raw,
                          before.U_components_metric.U_frame_raw,
                          FAbs(loc.U_frame_metric), milli)
            /\ SameWithin(now.U_components_metric.U_edge,
                          before.U_components_metric.U_edge,
                          FAbs(loc.U_edge_metric), milli)
            /\ (RefsOf(args) = SwapRefs(RefsOf(prev.args)) => now = before)

\* The default references replaced by (0.20, 0.40) and (0.35, 0.47), with the
\* same finite, non-zero result.
C11_Witness ==
    /\ AfterRefsChange
    /\ RefsOf(prev.args) = DefaultRefs
    /\ RefsOf(args) = << F(20, -2), F(40, -2), F(35, -2), F(47, -2) >>
    /\ Positive(args.width)
    /\ IsFin(ret.value.U_metric)
    /\ ret.value.U_metric.m # 0
    /\ ret.value.U_components_metric.U_frame_raw.m # 0
    /\ ret.value.U_metric = prev.ret.value.U_metric
    /\ ret.value.U_components_metric.U_frame_raw
          = prev.ret.value.U_components_metric.U_frame_raw

\* C12: after any sequence of size-unit selections without an edit of the Width
\* or Height field, the stored width_mm and height_mm are what they were before
\* the sequence (up to the rounding of the conversions), for every stored width
\* and every stored height up to the 6000 mm maximum.
C12_UnitChangeKeepsStoredDimensions ==
    /\ Same(session_state.width_mm, form.before.width_mm)
    /\ Same(session_state.height_mm, form.before.height_mm)

====
